---------------------------- MODULE Spec2Model ----------------------------
(***************************************************************************)
(* The typestate radio of src/lib.rs (Uninitialized -> Standby ->          *)
(* Configured -> Operate, with enter_standby back-edges), the retry loop   *)
(* try_enter_standby_forever, the race driver try_enter_standby_until and  *)
(* the combinator wait_for_one_to_complete of src/future_helper.rs.        *)
(*                                                                         *)
(* A Radio<State> value is a record [mode, data]; the PhantomData tag is   *)
(* the mode field.  A moved-from binding holds NoRadio.  Ownership is      *)
(* modelled by where the record lives: the caller's binding `radio`, the   *)
(* value a transition returned (`ret`), the retry loop's frame (`loop`),   *)
(* the output of the race (`sel`) or the driver's result (`result`).       *)
(***************************************************************************)
EXTENDS Integers, Sequences, FiniteSets, TLC

\* Largest count handed to new_init.
MaxInit == 3
\* Largest number of send_data calls followed in one lifecycle.
MaxSends == 2
\* Largest number of polls an operand of the stand-alone race stays pending.
MaxDelay == 2
\* Largest number of configure calls followed on a radio.rs device.
MaxConfigs == 3
\* Largest number of configure calls followed on a radio2.rs device.
MaxCycles == 5
\* Largest number of get_data calls followed on a radio2.rs device.
MaxGets == 2

VARIABLES
    n0,         \* the count the constructor was called with (history)
    radio,      \* the caller's binding: a Radio<State> or NoRadio once moved
    ret,        \* the value the last transition call returned, not yet bound
    failed,     \* failed standby attempts made directly by the caller (history)
    sent,       \* send_data calls made so far
    pre,        \* the device the last standby attempt consumed (history)
    edges,      \* the mode changes seen so far (history)
    trip,       \* progress of the round trip Standby->Configured->Operate->Standby
    snap,       \* the data of the device when it last entered Configured (history)
    loop,       \* the future try_enter_standby_forever(radio)
    cancel,     \* the second operand of the race: kind, signal, position
    sel,        \* wait_for_one_to_complete: position and output
    result,     \* what try_enter_standby_until returned
    dn,         \* init_count of the device handed to the driver (history)
    dfailed,    \* failed standby attempts made inside the retry loop (history)
    firedAtStart, \* whether the signal had fired when the driver was called (history)
    fut1,       \* first operand of a stand-alone wait_for_one_to_complete
    fut2,       \* second operand of a stand-alone wait_for_one_to_complete
    pradio,     \* radio.rs: the caller's Radio<State>, whose state carries data
    passed,     \* radio.rs: the configuration the last configure call was given (history)
    pcalls,     \* radio.rs: configure, failed standby and send_data calls so far (history)
    fpc,        \* test_looping_standby: position of try_enter_standby_forever(radio).await
    dattempts,  \* standby calls made inside the retry loop (history)
    dyields,    \* yield_now suspensions of the retry loop (history)
    cpolls,     \* polls of the cancellation operand (history)
    dafter,     \* standby attempts the race made once the signal had fired (history)
    firedAt,    \* the position of the race when the signal fired (history)
    radio2,     \* radio2.rs: the caller's Radio<State>
    ret2,       \* radio2.rs: the Result the last transition returned (history)
    calls2      \* radio2.rs: calls made so far, by method (history)

vars == <<n0, radio, ret, failed, sent, pre, edges, trip, snap,
          loop, cancel, sel, result, dn, dfailed, firedAtStart, fut1, fut2,
          pradio, passed, pcalls, fpc, dattempts, dyields, cpolls,
          dafter, firedAt, radio2, ret2, calls2>>

lifeVars == <<n0, radio, ret, failed, sent, pre, edges, trip, snap>>
raceVars == <<loop, cancel, sel, result, dn, dfailed, firedAtStart>>
futVars == <<fut1, fut2>>
payVars == <<pradio, passed, pcalls>>
loopVars == <<fpc, dattempts, dyields, cpolls>>
respVars == <<dafter, firedAt>>
twoVars == <<radio2, ret2, calls2>>

---------------------------------------------------------------------------
(* Values *)

NoRadio == [mode |-> "Moved"]
NoRet == [tag |-> "None"]
NoData == [init_count |-> 0, number |-> 0, other |-> 0]
NoErr == [error |-> "", radio |-> NoRadio]
NoOut == [tag |-> "None"]
NoResult == [tag |-> "None"]

\* Poll::Ready(v) / Poll::Pending
Ready(v) == [ready |-> TRUE, val |-> v]
Pending == [ready |-> FALSE]

\* FirstOrSecond::First(a) / FirstOrSecond::Second(b)
First(a) == [tag |-> "First", val |-> a]
Second(b) == [tag |-> "Second", val |-> b]

\* Result::Ok / Result::Err(RadioError { error, radio })
Ok(r) == [tag |-> "Ok", radio |-> r]
RadioError(msg, r) == [tag |-> "Err", error |-> msg, radio |-> r]

NotReadyMsg == "Radio not ready to configure"
CancelMsg == "Cancel requested from the user"
TimeoutMsg == "Timeout waiting for standby"

\* RadioData::new: _number is 3, _other is 0.14159 (kept in units of 1e-5).
RadioData_new(count) == [init_count |-> count, number |-> 3, other |-> 14159]

\* Radio::<Uninitialized>::new_init
new_init(count) == [mode |-> "Uninitialized", data |-> RadioData_new(count)]

\* Radio::<Uninitialized>::new
new == new_init(0)

\* u32 `-= 1`: below zero a debug build panics and a release build wraps.
Decrement(c) == IF c > 0 THEN c - 1 ELSE "underflow"


---------------------------------------------------------------------------
(* The transitions of impl Radio<State>.  Each takes the consumed device    *)
(* and gives the value the method returns.                                 *)

\* standby that reports the failure and forgets `self.data.init_count -= 1`.
standby_no_decrement(self) ==
    IF self.data.init_count > 0
    THEN RadioError(NotReadyMsg, self)
    ELSE Ok([mode |-> "Standby", data |-> self.data])

\* standby that hands back a new radio, Radio::new(), instead of `self`.
standby_fresh_radio(self) ==
    IF self.data.init_count > 0
    THEN RadioError(NotReadyMsg, new)
    ELSE Ok([mode |-> "Standby", data |-> self.data])

\* standby whose error is an ordinary one and does not carry the radio back.
standby_drops_radio(self) ==
    IF self.data.init_count > 0
    THEN RadioError(NotReadyMsg, NoRadio)
    ELSE Ok([mode |-> "Standby", data |-> self.data])

\* standby that decrements before it tests: `init_count -= 1` runs at zero too
\* (the wrapped value is written as the integer below zero).
standby_decrement_first(self) ==
    LET d == [self.data EXCEPT !.init_count = @ - 1]
    IN  IF self.data.init_count > 0
        THEN RadioError(NotReadyMsg, [self EXCEPT !.data = d])
        ELSE Ok([mode |-> "Standby", data |-> d])

\* Radio<Uninitialized>::standby
standby(self) ==
    IF self.data.init_count > 0
    THEN RadioError(NotReadyMsg,
                    [self EXCEPT !.data.init_count = Decrement(@)])
    ELSE Ok([mode |-> "Standby", data |-> self.data])

\* Radio<Standby>::configure
configure(self) == Ok([mode |-> "Configured", data |-> self.data])

\* operate that writes a payload field while it switches the mode.
operate_touches_number(self) ==
    Ok([mode |-> "Operate", data |-> [self.data EXCEPT !.number = @ + 1]])

\* Radio<Configured>::operate
operate(self) == Ok([mode |-> "Operate", data |-> self.data])

\* enter_standby that builds the radio data anew, with a retry to go.
enter_standby_configured_reinit(self) == [mode |-> "Standby", data |-> RadioData_new(1)]

\* Radio<Configured>::enter_standby
enter_standby_configured(self) == [mode |-> "Standby", data |-> self.data]

\* enter_standby that goes back to Uninitialized, as radio2.rs's standby does.
enter_standby_operate_uninit(self) == [mode |-> "Uninitialized", data |-> self.data]

\* Radio<Operate>::enter_standby
enter_standby_operate(self) == [mode |-> "Standby", data |-> self.data]

\* send_data that takes the radio by value, so the caller loses it.
send_data_consumes(self) == NoRadio

\* Radio<Operate>::send_data: `&self` is borrowed, the caller keeps the device
\* as it was; the method returns Ok(()).
send_data(self) == self

\* The devices a transition call on d can return: the consuming methods of
\* the impl block of d's mode.
Calls(d) ==
    CASE d.mode = "Uninitialized" -> {standby(d).radio}
      [] d.mode = "Standby" -> {configure(d).radio}
      [] d.mode = "Configured" -> {operate(d).radio, enter_standby_configured(d)}
      [] d.mode = "Operate" -> {enter_standby_operate(d)}
      [] OTHER -> {}

\* Whether at most `fuel` transition calls lead from d to a device in mode m.
RECURSIVE CanReach(_, _, _)
CanReach(d, m, fuel) ==
    \/ d.mode = m
    \/ fuel > 0 /\ \E d2 \in Calls(d) : CanReach(d2, m, fuel - 1)

---------------------------------------------------------------------------
(* Where the device is *)

\* Every binding that owns a device, with the device it owns.
Holders ==
    {h \in {<<"radio", radio>>, <<"ret", IF ret.tag = "None" THEN NoRadio ELSE ret.radio>>,
            <<"loop.radio", loop.radio>>, <<"loop.e", loop.e.radio>>,
            <<"sel", IF sel.out.tag = "First" THEN sel.out.val ELSE NoRadio>>,
            <<"result", IF result.tag = "Ok" THEN result.radio ELSE NoRadio>>} :
        h[2] # NoRadio}

\* The device of the lifecycle, wherever it lives; NoRadio once it was dropped.
Device == IF Holders = {} THEN NoRadio ELSE (CHOOSE h \in Holders : TRUE)[2]
Mode == Device.mode
Data == IF Device = NoRadio THEN NoData ELSE Device.data

\* History kept beside every step: the mode change it made.
Track == edges' = IF Mode' # Mode THEN edges \cup {<<Mode, Mode'>>} ELSE edges

---------------------------------------------------------------------------
(* The caller's steps on the device (tests::test_radio, test_looping_init) *)

\* match radio.standby().await
Standby ==
    /\ radio.mode = "Uninitialized"
    /\ ret = NoRet
    /\ ret' = standby(radio)
    /\ pre' = radio
    /\ radio' = NoRadio
    /\ failed' = IF ret'.tag = "Err" THEN failed + 1 ELSE failed
    /\ UNCHANGED <<n0, sent, trip, snap>>
    /\ UNCHANGED raceVars
    /\ UNCHANGED futVars
    /\ UNCHANGED payVars
    /\ UNCHANGED loopVars
    /\ UNCHANGED respVars
    /\ UNCHANGED twoVars
    /\ Track

\* Err(e) => radio = e.radio
Recover ==
    /\ ret.tag = "Err"
    /\ radio' = ret.radio
    /\ ret' = NoRet
    /\ UNCHANGED <<n0, failed, sent, pre, trip, snap>>
    /\ UNCHANGED raceVars
    /\ UNCHANGED futVars
    /\ UNCHANGED payVars
    /\ UNCHANGED loopVars
    /\ UNCHANGED respVars
    /\ UNCHANGED twoVars
    /\ Track

\* Ok(radio) => break radio, and the `?` after configure and operate
TakeOk ==
    /\ ret.tag = "Ok"
    /\ radio' = ret.radio
    /\ ret' = NoRet
    /\ UNCHANGED <<n0, failed, sent, pre, trip, snap>>
    /\ UNCHANGED raceVars
    /\ UNCHANGED futVars
    /\ UNCHANGED payVars
    /\ UNCHANGED loopVars
    /\ UNCHANGED respVars
    /\ UNCHANGED twoVars
    /\ Track

\* standby_radio.configure(ConfigureData::default()).await
Configure ==
    /\ radio.mode = "Standby"
    /\ ret = NoRet
    /\ ret' = configure(radio)
    /\ radio' = NoRadio
    /\ trip' = "configured"
    /\ snap' = radio.data
    /\ UNCHANGED <<n0, failed, sent, pre>>
    /\ UNCHANGED raceVars
    /\ UNCHANGED futVars
    /\ UNCHANGED payVars
    /\ UNCHANGED loopVars
    /\ UNCHANGED respVars
    /\ UNCHANGED twoVars
    /\ Track

\* configured_radio.operate().await
Operate ==
    /\ radio.mode = "Configured"
    /\ ret = NoRet
    /\ ret' = operate(radio)
    /\ radio' = NoRadio
    /\ trip' = "operate"
    /\ UNCHANGED <<n0, failed, sent, pre, snap>>
    /\ UNCHANGED raceVars
    /\ UNCHANGED futVars
    /\ UNCHANGED payVars
    /\ UNCHANGED loopVars
    /\ UNCHANGED respVars
    /\ UNCHANGED twoVars
    /\ Track

\* let radio = configured_radio.enter_standby().await
EnterStandbyConfigured ==
    /\ radio.mode = "Configured"
    /\ ret = NoRet
    /\ radio' = enter_standby_configured(radio)
    /\ trip' = "none"
    /\ UNCHANGED <<n0, ret, failed, sent, pre, snap>>
    /\ UNCHANGED raceVars
    /\ UNCHANGED futVars
    /\ UNCHANGED payVars
    /\ UNCHANGED loopVars
    /\ UNCHANGED respVars
    /\ UNCHANGED twoVars
    /\ Track

\* let _radio = operate_radio.enter_standby().await
EnterStandbyOperate ==
    /\ radio.mode = "Operate"
    /\ ret = NoRet
    /\ radio' = enter_standby_operate(radio)
    /\ trip' = "complete"
    /\ UNCHANGED <<n0, ret, failed, sent, pre, snap>>
    /\ UNCHANGED raceVars
    /\ UNCHANGED futVars
    /\ UNCHANGED payVars
    /\ UNCHANGED loopVars
    /\ UNCHANGED respVars
    /\ UNCHANGED twoVars
    /\ Track

\* operate_radio.send_data(&[1, 2, 3]).await?  (borrows the device)
SendData ==
    /\ radio.mode = "Operate"
    /\ ret = NoRet
    /\ sent < MaxSends
    /\ sent' = sent + 1
    /\ radio' = send_data(radio)
    /\ UNCHANGED <<n0, ret, failed, pre, trip, snap>>
    /\ UNCHANGED raceVars
    /\ UNCHANGED futVars
    /\ UNCHANGED payVars
    /\ UNCHANGED loopVars
    /\ UNCHANGED respVars
    /\ UNCHANGED twoVars
    /\ Track

---------------------------------------------------------------------------
(* wait_for_one_to_complete: future::select polls fut1 and, only when fut1  *)
(* is pending, fut2; Either::Left becomes First, Either::Right Second.     *)

\* A race that looks at its second operand only when it is first polled with
\* the first one ready: fut1 pending leaves the race pending.
select_first_only(p1) ==
    IF p1.ready THEN [pc |-> "resolved", out |-> First(p1.val)]
    ELSE [pc |-> "pending", out |-> NoOut]

\* after the poll of fut1 gave p1
select_first(p1) ==
    IF p1.ready THEN [pc |-> "resolved", out |-> First(p1.val)]
    ELSE [pc |-> "poll2", out |-> NoOut]

\* Either::Right mapped to First.
select_second_as_first(p2) ==
    IF p2.ready THEN [pc |-> "resolved", out |-> First(p2.val)]
    ELSE [pc |-> "pending", out |-> NoOut]

\* after the poll of fut2 gave p2 (fut1 was pending)
select_second(p2) ==
    IF p2.ready THEN [pc |-> "resolved", out |-> Second(p2.val)]
    ELSE [pc |-> "pending", out |-> NoOut]

---------------------------------------------------------------------------
(* tests::try_enter_standby_forever, as a future: one poll runs the loop    *)
(* from where it was suspended to its next suspension or to its end.       *)

\* A retry that starts over with a new radio instead of taking e.radio.
loop_radio_restart(l) == IF l.pc = "yield" THEN new_init(dn) ELSE l.radio

\* The device the next attempt consumes: after yield_now, radio = e.radio.
loop_radio(l) == IF l.pc = "yield" THEN l.e.radio ELSE l.radio

\* The loop without yield_now: it retries inside one poll until it succeeds.
RECURSIVE standby_until_ok(_)
standby_until_ok(r) ==
    LET res == standby(r)
    IN  IF res.tag = "Ok" THEN res.radio ELSE standby_until_ok(res.radio)

try_enter_standby_forever_no_yield(l) ==
    [loop |-> [pc |-> "done", radio |-> NoRadio, e |-> NoErr],
     poll |-> Ready(standby_until_ok(loop_radio(l))),
     attempts |-> loop_radio(l).data.init_count + 1, yields |-> 0]

\* The loop giving up after a failed attempt: it breaks with e.radio.
try_enter_standby_forever_gives_up(l) ==
    [loop |-> [pc |-> "done", radio |-> NoRadio, e |-> NoErr],
     poll |-> Ready(standby(loop_radio(l)).radio),
     attempts |-> 1, yields |-> 0]

try_enter_standby_forever(l) ==
    LET res == standby(loop_radio(l))
    IN  IF res.tag = "Ok"
        THEN [loop |-> [pc |-> "done", radio |-> NoRadio, e |-> NoErr],
              poll |-> Ready(res.radio), attempts |-> 1, yields |-> 0]
        ELSE [loop |-> [pc |-> "yield", radio |-> NoRadio,
                        e |-> [error |-> res.error, radio |-> res.radio]],
              poll |-> Pending, attempts |-> 1, yields |-> 1]

\* What the cancellation operand of each test returns once its wait is over.
cancel_output(kind) == IF kind = "timer" THEN TimeoutMsg ELSE CancelMsg

\* A cancellation operand that does not wait for its signal.
cancel_poll_eager(c) ==
    [cancel |-> [c EXCEPT !.pc = "done"], poll |-> Ready(cancel_output(c.kind))]

\* One poll of the cancellation operand: rx.await or sleep, then the error.
cancel_poll(c) ==
    IF c.fired
    THEN [cancel |-> [c EXCEPT !.pc = "done"], poll |-> Ready(cancel_output(c.kind))]
    ELSE [cancel |-> c, poll |-> Pending]

\* The match of try_enter_standby_until on the output of the race.
try_enter_standby_until(out) ==
    IF out.tag = "First" THEN [tag |-> "Ok", radio |-> out.val]
    ELSE [tag |-> "Err", error |-> out.val]

\* A retry loop that outlives the race (spawned, or kept, not dropped).
drop_loop_leaks(l) == l

\* An operand the race drops without completing it.
drop_loop(l) == IF l.pc = "done" THEN l ELSE [pc |-> "dropped", radio |-> NoRadio, e |-> NoErr]
drop_cancel(c) == IF c.pc = "done" THEN c ELSE [c EXCEPT !.pc = "dropped"]

---------------------------------------------------------------------------
(* The driver's steps *)

\* The driver with the operands of the race swapped: the cancellation operand
\* is polled first.
Start_cancel_first ==
    /\ sel.pc = "idle"
    /\ fpc = "idle"
    /\ radio.mode = "Uninitialized"
    /\ ret = NoRet
    /\ loop' = [pc |-> "start", radio |-> radio, e |-> NoErr]
    /\ radio' = NoRadio
    /\ sel' = [pc |-> "poll2", out |-> NoOut]
    /\ dn' = radio.data.init_count
    /\ firedAtStart' = cancel.fired
    /\ UNCHANGED <<n0, ret, failed, sent, pre, trip, snap>>
    /\ UNCHANGED <<cancel, result, dfailed>>
    /\ UNCHANGED <<futVars, payVars, loopVars>>
    /\ UNCHANGED respVars
    /\ UNCHANGED twoVars
    /\ Track

\* try_enter_standby_until(radio, cancel): the device moves into the loop.
Start ==
    /\ sel.pc = "idle"
    /\ fpc = "idle"
    /\ radio.mode = "Uninitialized"
    /\ ret = NoRet
    /\ loop' = [pc |-> "start", radio |-> radio, e |-> NoErr]
    /\ radio' = NoRadio
    /\ sel' = [pc |-> "poll1", out |-> NoOut]
    /\ dn' = radio.data.init_count
    /\ firedAtStart' = cancel.fired
    /\ UNCHANGED <<n0, ret, failed, sent, pre, trip, snap>>
    /\ UNCHANGED <<cancel, result, dfailed>>
    /\ UNCHANGED futVars
    /\ UNCHANGED payVars
    /\ UNCHANGED loopVars
    /\ UNCHANGED respVars
    /\ UNCHANGED twoVars
    /\ Track

\* select polls the retry loop.
PollFirst ==
    /\ sel.pc = "poll1"
    /\ LET step == try_enter_standby_forever(loop)
       IN  /\ loop' = step.loop
           /\ sel' = select_first(step.poll)
           /\ dfailed' = IF step.poll.ready THEN dfailed ELSE dfailed + 1
           /\ dattempts' = dattempts + step.attempts
           /\ dyields' = dyields + step.yields
           /\ dafter' = IF cancel.fired
                        THEN [attempts |-> dafter.attempts + step.attempts,
                              failed |-> dafter.failed + step.yields]
                        ELSE dafter
    /\ pre' = loop_radio(loop)
    /\ UNCHANGED <<n0, radio, ret, failed, sent, trip, snap>>
    /\ UNCHANGED <<cancel, result, dn, firedAtStart>>
    /\ UNCHANGED futVars
    /\ UNCHANGED payVars
    /\ UNCHANGED <<fpc, cpolls>>
    /\ UNCHANGED firedAt
    /\ UNCHANGED twoVars
    /\ Track

\* select polls the cancellation operand.
PollSecond ==
    /\ sel.pc = "poll2"
    /\ LET step == cancel_poll(cancel)
       IN  /\ cancel' = step.cancel
           /\ sel' = select_second(step.poll)
    /\ cpolls' = cpolls + 1
    /\ UNCHANGED lifeVars
    /\ UNCHANGED futVars
    /\ UNCHANGED payVars
    /\ UNCHANGED <<fpc, dattempts, dyields>>
    /\ UNCHANGED <<loop, result, dn, dfailed, firedAtStart>>
    /\ UNCHANGED respVars
    /\ UNCHANGED twoVars

\* The task is woken (yield_now wakes it at once) and select is polled again.
Wake ==
    /\ sel.pc = "pending"
    /\ sel' = [sel EXCEPT !.pc = "poll1"]
    /\ UNCHANGED lifeVars
    /\ UNCHANGED futVars
    /\ UNCHANGED payVars
    /\ UNCHANGED loopVars
    /\ UNCHANGED <<loop, cancel, result, dn, dfailed, firedAtStart>>
    /\ UNCHANGED respVars
    /\ UNCHANGED twoVars

\* wait_for_one_to_complete returns, dropping both operands; the driver matches.
Match ==
    /\ sel.pc = "resolved"
    /\ result' = try_enter_standby_until(sel.out)
    /\ sel' = [pc |-> "returned", out |-> NoOut]
    /\ loop' = drop_loop(loop)
    /\ cancel' = drop_cancel(cancel)
    /\ UNCHANGED <<n0, radio, ret, failed, sent, pre, trip, snap>>
    /\ UNCHANGED <<dn, dfailed, firedAtStart>>
    /\ UNCHANGED futVars
    /\ UNCHANGED payVars
    /\ UNCHANGED loopVars
    /\ UNCHANGED respVars
    /\ UNCHANGED twoVars
    /\ Track

\* tests::test_looping_standby: try_enter_standby_forever(radio).await, the
\* loop awaited on its own; the device moves into the loop.
ForeverStart ==
    /\ sel.pc = "idle"
    /\ fpc = "idle"
    /\ radio.mode = "Uninitialized"
    /\ ret = NoRet
    /\ loop' = [pc |-> "start", radio |-> radio, e |-> NoErr]
    /\ radio' = NoRadio
    /\ fpc' = "poll"
    /\ dn' = radio.data.init_count
    /\ UNCHANGED <<n0, ret, failed, sent, pre, trip, snap>>
    /\ UNCHANGED <<cancel, sel, result, dfailed, firedAtStart>>
    /\ UNCHANGED <<futVars, payVars, dattempts, dyields, cpolls>>
    /\ UNCHANGED respVars
    /\ UNCHANGED twoVars
    /\ Track

\* The task polls the loop; when it ends, `let _radio =` binds its device.
ForeverPoll ==
    /\ fpc = "poll"
    /\ LET step == try_enter_standby_forever(loop)
       IN  /\ loop' = step.loop
           /\ radio' = IF step.poll.ready THEN step.poll.val ELSE radio
           /\ fpc' = IF step.poll.ready THEN "returned" ELSE "pending"
           /\ dfailed' = IF step.poll.ready THEN dfailed ELSE dfailed + 1
           /\ dattempts' = dattempts + step.attempts
           /\ dyields' = dyields + step.yields
    /\ pre' = loop_radio(loop)
    /\ UNCHANGED <<n0, ret, failed, sent, trip, snap>>
    /\ UNCHANGED <<cancel, sel, result, dn, firedAtStart>>
    /\ UNCHANGED <<futVars, payVars, cpolls>>
    /\ UNCHANGED respVars
    /\ UNCHANGED twoVars
    /\ Track

\* yield_now has woken the task: the loop is polled again.
ForeverWake ==
    /\ fpc = "pending"
    /\ fpc' = "poll"
    /\ UNCHANGED <<lifeVars, raceVars, futVars, payVars>>
    /\ UNCHANGED <<dattempts, dyields, cpolls>>
    /\ UNCHANGED respVars
    /\ UNCHANGED twoVars

\* The environment: tx.send(()) at any time, or the 5 s sleep elapsing, which
\* it does only after the loop (which never waits for time) has finished.
Fire ==
    /\ cancel.pc = "waiting"
    /\ ~cancel.fired
    /\ \/ cancel.kind = "live"
       \/ cancel.kind = "timer" /\ loop.pc = "done"
    /\ cancel' = [cancel EXCEPT !.fired = TRUE]
    /\ UNCHANGED lifeVars
    /\ UNCHANGED futVars
    /\ UNCHANGED payVars
    /\ UNCHANGED loopVars
    /\ UNCHANGED <<loop, sel, result, dn, dfailed, firedAtStart>>
    /\ firedAt' = sel.pc
    /\ UNCHANGED dafter
    /\ UNCHANGED twoVars

---------------------------------------------------------------------------
(* wait_for_one_to_complete on its own, over any two futures.  An operand   *)
(* is pending for `left` more polls and then ready with `out`, or is never *)
(* ready; `delay` keeps the number of polls it started with.               *)

NoFuture == [never |-> TRUE, delay |-> 0, left |-> 0, out |-> "none"]
Outputs == {"a", "b"}
Futures ==
    {[never |-> FALSE, delay |-> d, left |-> d, out |-> o] : d \in 0..MaxDelay, o \in Outputs}
    \cup {[never |-> TRUE, delay |-> 0, left |-> 0, out |-> o] : o \in Outputs}

\* Future::poll of such an operand.
future_poll(f) ==
    IF ~f.never /\ f.left = 0 THEN [fut |-> f, poll |-> Ready(f.out)]
    ELSE [fut |-> IF f.never THEN f ELSE [f EXCEPT !.left = @ - 1], poll |-> Pending]

SelPollFirst ==
    /\ sel.pc = "poll1"
    /\ LET step == future_poll(fut1)
       IN  /\ fut1' = step.fut
           /\ sel' = select_first(step.poll)
    /\ UNCHANGED <<fut2, loop, cancel, result, dn, dfailed, firedAtStart>>
    /\ UNCHANGED lifeVars
    /\ UNCHANGED payVars
    /\ UNCHANGED loopVars
    /\ UNCHANGED respVars
    /\ UNCHANGED twoVars

SelPollSecond ==
    /\ sel.pc = "poll2"
    /\ LET step == future_poll(fut2)
       IN  /\ fut2' = step.fut
           /\ sel' = select_second(step.poll)
    /\ UNCHANGED <<fut1, loop, cancel, result, dn, dfailed, firedAtStart>>
    /\ UNCHANGED lifeVars
    /\ UNCHANGED payVars
    /\ UNCHANGED loopVars
    /\ UNCHANGED respVars
    /\ UNCHANGED twoVars

\* A pending operand wakes the task and select is polled again.
SelWake ==
    /\ sel.pc = "pending"
    /\ ~(fut1.never /\ fut2.never)
    /\ sel' = [sel EXCEPT !.pc = "poll1"]
    /\ UNCHANGED <<fut1, fut2, loop, cancel, result, dn, dfailed, firedAtStart>>
    /\ UNCHANGED lifeVars
    /\ UNCHANGED payVars
    /\ UNCHANGED loopVars
    /\ UNCHANGED respVars
    /\ UNCHANGED twoVars

---------------------------------------------------------------------------
(* radio.rs: the same lifecycle with the state marker a value of the device *)
(* (Radio { data, state }), so that Configured carries the configuration.  *)

NoPRadio == [state |-> [tag |-> "Moved"]]

\* ConfigureData is a unit struct: it has one value.
ConfigureDatas == {"ConfigureData"}
NoConfig == "none"

\* Radio::<Uninitialized>::new_init of radio.rs
radio_new_init(count) ==
    [data |-> RadioData_new(count), state |-> [tag |-> "Uninitialized"]]

\* Radio<Uninitialized>::standby of radio.rs; the error carries `other: self`.
radio_standby(self) ==
    IF self.data.init_count > 0
    THEN RadioError(NotReadyMsg, [self EXCEPT !.data.init_count = Decrement(@)])
    ELSE Ok([data |-> self.data, state |-> [tag |-> "Standby"]])

\* configure that builds the Configured state from ConfigureData::default()
\* and the data anew, not from its arguments.
radio_configure_rebuilds(self, configdata) ==
    Ok([data |-> RadioData_new(self.data.number),
        state |-> [tag |-> "Configured", config |-> configdata]])

\* Radio<Standby>::configure of radio.rs
radio_configure(self, configdata) ==
    Ok([data |-> self.data, state |-> [tag |-> "Configured", config |-> configdata]])

\* operate that moves self.state on, configuration included.
radio_operate_keeps_config(self) ==
    Ok([data |-> self.data, state |-> [self.state EXCEPT !.tag = "Operate"]])

\* Radio<Configured>::operate of radio.rs
radio_operate(self) == Ok([data |-> self.data, state |-> [tag |-> "Operate"]])

\* Radio<Configured>::enter_standby and Radio<Operate>::enter_standby of radio.rs
radio_enter_standby_configured(self) == [data |-> self.data, state |-> [tag |-> "Standby"]]
radio_enter_standby_operate(self) == [data |-> self.data, state |-> [tag |-> "Standby"]]

\* `?` on a transition's Result: the device on Ok; on Err the test returns
\* and the device goes with the error.
Question(res) == IF res.tag = "Ok" THEN res.radio ELSE NoPRadio

\* match radio.standby().await: Ok(radio) => break radio, Err(e) => radio = e.other
PStandby ==
    /\ pradio.state.tag = "Uninitialized"
    /\ LET res == radio_standby(pradio)
       IN  /\ pradio' = res.radio
           /\ pcalls' = IF res.tag = "Err"
                        THEN [pcalls EXCEPT !.failed = @ + 1] ELSE pcalls
    /\ UNCHANGED passed
    /\ UNCHANGED <<lifeVars, raceVars, futVars, loopVars>>
    /\ UNCHANGED respVars
    /\ UNCHANGED twoVars

\* let radio = radio.configure(ConfigureData::default()).await?
PConfigure ==
    /\ pradio.state.tag = "Standby"
    /\ pcalls.configure < MaxConfigs
    /\ \E c \in ConfigureDatas :
           /\ pradio' = Question(radio_configure(pradio, c))
           /\ passed' = c
    /\ pcalls' = [pcalls EXCEPT !.configure = @ + 1]
    /\ UNCHANGED <<lifeVars, raceVars, futVars, loopVars>>
    /\ UNCHANGED respVars
    /\ UNCHANGED twoVars

\* let radio = radio.operate().await?
POperate ==
    /\ pradio.state.tag = "Configured"
    /\ pradio' = Question(radio_operate(pradio))
    /\ UNCHANGED <<passed, pcalls>>
    /\ UNCHANGED <<lifeVars, raceVars, futVars, loopVars>>
    /\ UNCHANGED respVars
    /\ UNCHANGED twoVars

\* radio.enter_standby().await on a Configured device
PEnterStandbyConfigured ==
    /\ pradio.state.tag = "Configured"
    /\ pradio' = radio_enter_standby_configured(pradio)
    /\ UNCHANGED <<passed, pcalls>>
    /\ UNCHANGED <<lifeVars, raceVars, futVars, loopVars>>
    /\ UNCHANGED respVars
    /\ UNCHANGED twoVars

\* radio.enter_standby().await on an Operate device
PEnterStandbyOperate ==
    /\ pradio.state.tag = "Operate"
    /\ pradio' = radio_enter_standby_operate(pradio)
    /\ UNCHANGED <<passed, pcalls>>
    /\ UNCHANGED <<lifeVars, raceVars, futVars, loopVars>>
    /\ UNCHANGED respVars
    /\ UNCHANGED twoVars

\* radio.send_data(&[1, 2, 3]).await?
PSendData ==
    /\ pradio.state.tag = "Operate"
    /\ pcalls.send_data < MaxSends
    /\ pcalls' = [pcalls EXCEPT !.send_data = @ + 1]
    /\ UNCHANGED <<pradio, passed>>
    /\ UNCHANGED <<lifeVars, raceVars, futVars, loopVars>>
    /\ UNCHANGED respVars
    /\ UNCHANGED twoVars

---------------------------------------------------------------------------
(* radio2.rs: Uninitialized -> Configured -> Operate, where standby leads   *)
(* back to Uninitialized.  Every transition returns an anyhow::Result.     *)

NoRadio2 == [mode |-> "Moved"]

\* Data::default(): `_value: u32` is zero.
Data_default == [value |-> 0]

\* Radio::<Uninitialized>::default
radio2_default == [mode |-> "Uninitialized", data |-> Data_default]

\* Radio<Uninitialized>::get_data: a borrow of the data
radio2_get_data(self) == self.data

\* Radio<Uninitialized>::configure
radio2_configure(self) == Ok([mode |-> "Configured", data |-> self.data])

\* Radio<Configured>::operate
radio2_operate(self) == Ok([mode |-> "Operate", data |-> self.data])

\* Radio<Configured>::standby
radio2_standby_configured(self) == Ok([mode |-> "Uninitialized", data |-> self.data])

\* standby that counts its calls in the data it carries.
radio2_standby_operate_counts(self) ==
    Ok([mode |-> "Uninitialized", data |-> [value |-> self.data.value + 1]])

\* Radio<Operate>::standby
radio2_standby_operate(self) == Ok([mode |-> "Uninitialized", data |-> self.data])

\* `?` on a transition's Result in test_operate: the device on Ok; on Err the
\* test returns and nothing is bound.
Question2(res) == IF res.tag = "Ok" THEN res.radio ELSE NoRadio2

\* let radio = radio.configure().await?
TwoConfigure ==
    /\ radio2.mode = "Uninitialized"
    /\ calls2.configure < MaxCycles
    /\ ret2' = radio2_configure(radio2)
    /\ radio2' = Question2(ret2')
    /\ calls2' = [calls2 EXCEPT !.configure = @ + 1]
    /\ UNCHANGED <<lifeVars, raceVars, futVars, payVars, loopVars, respVars>>

\* let radio = radio.operate().await?
TwoOperate ==
    /\ radio2.mode = "Configured"
    /\ ret2' = radio2_operate(radio2)
    /\ radio2' = Question2(ret2')
    /\ calls2' = [calls2 EXCEPT !.operate = @ + 1]
    /\ UNCHANGED <<lifeVars, raceVars, futVars, payVars, loopVars, respVars>>

\* let radio = radio.standby().await? on a Configured device
TwoStandbyConfigured ==
    /\ radio2.mode = "Configured"
    /\ ret2' = radio2_standby_configured(radio2)
    /\ radio2' = Question2(ret2')
    /\ calls2' = [calls2 EXCEPT !.standby_configured = @ + 1]
    /\ UNCHANGED <<lifeVars, raceVars, futVars, payVars, loopVars, respVars>>

\* let _radio = radio.standby().await? on an Operate device
TwoStandbyOperate ==
    /\ radio2.mode = "Operate"
    /\ ret2' = radio2_standby_operate(radio2)
    /\ radio2' = Question2(ret2')
    /\ calls2' = [calls2 EXCEPT !.standby_operate = @ + 1]
    /\ UNCHANGED <<lifeVars, raceVars, futVars, payVars, loopVars, respVars>>

\* radio.get_data() on an Uninitialized device: the device stays where it is.
TwoGetData ==
    /\ radio2.mode = "Uninitialized"
    /\ calls2.get_data < MaxGets
    /\ radio2_get_data(radio2) = radio2.data
    /\ calls2' = [calls2 EXCEPT !.get_data = @ + 1]
    /\ UNCHANGED <<radio2, ret2>>
    /\ UNCHANGED <<lifeVars, raceVars, futVars, payVars, loopVars, respVars>>

NoCalls2 ==
    [configure |-> 0, operate |-> 0, standby_configured |-> 0,
     standby_operate |-> 0, get_data |-> 0]
IdleTwo == radio2 = NoRadio2 /\ ret2 = NoRet /\ calls2 = NoCalls2

NoCalls == [configure |-> 0, failed |-> 0, send_data |-> 0]
IdlePayload == pradio = NoPRadio /\ passed = NoConfig /\ pcalls = NoCalls
IdleLoop == fpc = "idle" /\ dattempts = 0 /\ dyields = 0 /\ cpolls = 0
NoAttempts == [attempts |-> 0, failed |-> 0]
IdleResponse == dafter = NoAttempts /\ firedAt = "never"

---------------------------------------------------------------------------
CancelKinds == {"held", "timer", "live"}

Init ==
    /\ radio \in {new} \cup {new_init(n) : n \in 0..MaxInit}
    /\ n0 = radio.data.init_count
    /\ ret = NoRet
    /\ failed = 0
    /\ sent = 0
    /\ pre = NoRadio
    /\ edges = {}
    /\ trip = "none"
    /\ snap = NoData
    /\ loop = [pc |-> "unborn", radio |-> NoRadio, e |-> NoErr]
    /\ cancel \in {[kind |-> k, fired |-> FALSE, pc |-> "waiting"] : k \in CancelKinds}
    /\ sel = [pc |-> "idle", out |-> NoOut]
    /\ result = NoResult
    /\ dn = 0
    /\ dfailed = 0
    /\ firedAtStart = FALSE
    /\ fut1 = NoFuture
    /\ fut2 = NoFuture
    /\ IdlePayload
    /\ IdleLoop
    /\ IdleResponse
    /\ IdleTwo

Next ==
    \/ Standby
    \/ Recover
    \/ TakeOk
    \/ Configure
    \/ Operate
    \/ EnterStandbyConfigured
    \/ EnterStandbyOperate
    \/ SendData
    \/ Start
    \/ PollFirst
    \/ PollSecond
    \/ Wake
    \/ Match
    \/ Fire
    \/ ForeverStart
    \/ ForeverPoll
    \/ ForeverWake

Spec == Init /\ [][Next]_vars

\* The executor polls a woken task, and a poll runs to its end.
FairSpec ==
    /\ Spec
    /\ WF_vars(PollFirst) /\ WF_vars(PollSecond) /\ WF_vars(Wake) /\ WF_vars(Match)
    /\ WF_vars(ForeverPoll) /\ WF_vars(ForeverWake)

\* The race with its operands swapped, select(fut2, fut1): fut2 is polled first.
InitSelect_second_first ==
    /\ fut1 \in Futures
    /\ fut2 \in Futures
    /\ sel = [pc |-> "poll2", out |-> NoOut]
    /\ radio = NoRadio
    /\ n0 = 0
    /\ ret = NoRet
    /\ failed = 0
    /\ sent = 0
    /\ pre = NoRadio
    /\ edges = {}
    /\ trip = "none"
    /\ snap = NoData
    /\ loop = [pc |-> "unborn", radio |-> NoRadio, e |-> NoErr]
    /\ cancel = [kind |-> "held", fired |-> FALSE, pc |-> "waiting"]
    /\ result = NoResult
    /\ dn = 0
    /\ dfailed = 0
    /\ firedAtStart = FALSE
    /\ IdlePayload
    /\ IdleLoop
    /\ IdleResponse
    /\ IdleTwo

\* wait_for_one_to_complete(fut1, fut2).await over every pair of operands.
InitSelect ==
    /\ fut1 \in Futures
    /\ fut2 \in Futures
    /\ sel = [pc |-> "poll1", out |-> NoOut]
    /\ radio = NoRadio
    /\ n0 = 0
    /\ ret = NoRet
    /\ failed = 0
    /\ sent = 0
    /\ pre = NoRadio
    /\ edges = {}
    /\ trip = "none"
    /\ snap = NoData
    /\ loop = [pc |-> "unborn", radio |-> NoRadio, e |-> NoErr]
    /\ cancel = [kind |-> "held", fired |-> FALSE, pc |-> "waiting"]
    /\ result = NoResult
    /\ dn = 0
    /\ dfailed = 0
    /\ firedAtStart = FALSE
    /\ IdlePayload
    /\ IdleLoop
    /\ IdleResponse
    /\ IdleTwo

NextSelect ==
    \/ SelPollFirst
    \/ SelPollSecond
    \/ SelWake

SpecSelect == InitSelect /\ [][NextSelect]_vars

---------------------------------------------------------------------------
(* Properties *)

InitCount == Data.init_count
Attempts == failed + dfailed

\* C1: a device built by new_init(n) (new() is n = 0) reaches Standby after
\* exactly n failed standby attempts and one successful one: while it is
\* Uninitialized its init_count is n minus the failures so far, once it has
\* left Uninitialized the failures number n, and the device a failed attempt
\* returns has the data of the consumed device with init_count lower by 1.
C1_ExactRetries ==
    /\ Mode = "Uninitialized" => InitCount = n0 - Attempts
    /\ Mode \in {"Standby", "Configured", "Operate"} =>
           Attempts = n0 /\ pre.data.init_count = 0
    /\ ret.tag = "Err" =>
           ret.radio.data = [pre.data EXCEPT !.init_count = @ - 1]
    /\ loop.pc = "yield" =>
           loop.e.radio.data = [pre.data EXCEPT !.init_count = @ - 1]

C1_Witness == Mode = "Standby" /\ n0 >= 2 /\ failed = n0 /\ radio # NoRadio

AllowedEdges ==
    {<<"Uninitialized", "Standby">>, <<"Standby", "Configured">>,
     <<"Configured", "Operate">>, <<"Configured", "Standby">>,
     <<"Operate", "Standby">>}

\* C2: every step that changes the mode of the device follows one of the five
\* edges Uninitialized->Standby, Standby->Configured, Configured->Operate,
\* Configured->Standby, Operate->Standby (none leads into Uninitialized).
C2_OnlyAllowedEdges ==
    [][(Mode' # Mode /\ Device' # NoRadio) => <<Mode, Mode'>> \in AllowedEdges]_vars

C2_Witness == edges = AllowedEdges

\* C3 as stated: the device inside the error of a failed standby attempt is
\* the consumed device, unchanged.
C3_Original == ret.tag = "Err" => ret.radio = pre

\* C3 amended: the device inside the error of a failed standby attempt is
\* tagged Uninitialized and is the consumed device except for init_count,
\* which is lower by exactly 1; the error message is the not-ready message.
C3_ErrorReturnsDevice ==
    /\ ret.tag = "Err" =>
           /\ ret.radio.mode = "Uninitialized"
           /\ ret.radio = [pre EXCEPT !.data.init_count = @ - 1]
           /\ ret.error = NotReadyMsg
    /\ loop.pc = "yield" =>
           /\ loop.e.radio.mode = "Uninitialized"
           /\ loop.e.radio = [pre EXCEPT !.data.init_count = @ - 1]
           /\ loop.e.error = NotReadyMsg

C3_Witness == ret.tag = "Err" /\ pre.data.init_count = 2

\* C4: as long as the race has not dropped the retry loop, exactly one
\* binding owns a device: a transition call leaves it either in the returned
\* new-mode device or inside the returned error, never in both or in neither.
C4_OneDevice == loop.pc # "dropped" => Cardinality(Holders) = 1

C4_Witness == ret.tag = "Ok" /\ ret.radio.mode = "Operate" /\ failed >= 1

\* C5: init_count never increases; a step changes it exactly when it is a
\* failed standby attempt, and then it drops by exactly 1.
C5_InitCountOnlyDrops ==
    [][Device' # NoRadio =>
          /\ InitCount' <= InitCount
          /\ (InitCount' # InitCount) <=> (Attempts' = Attempts + 1)
          /\ (InitCount' # InitCount) => (InitCount' = InitCount - 1)]_vars

C5_Witness == loop.pc = "yield" /\ dfailed >= 2 /\ failed >= 1

\* C6: a driver called on a device with init_count >= 1 after the signal
\* has fired returns Err with the cancellation message and never holds or
\* returns a Standby device.
C6_CancelledBeforeStart ==
    (firedAtStart /\ dn >= 1) =>
        /\ sel.out.tag # "First"
        /\ result.tag # "Ok"
        /\ sel.pc = "returned" => result = [tag |-> "Err", error |-> CancelMsg]

C6_Witness ==
    /\ sel.pc = "returned" /\ firedAtStart
    /\ n0 = 2 /\ dn = 2 /\ failed = 0
    /\ result.tag = "Err"

QuietKinds == {"held", "timer"}

\* C7: with a cancellation operand that never fires, or fires only after
\* the loop's successful attempt, the started driver eventually returns a
\* Standby device, after exactly as many failed internal attempts as the
\* device's init_count, and never returns the cancellation's value.
C7_RetryWins ==
    /\ [](cancel.kind \in QuietKinds =>
            /\ result.tag # "Err"
            /\ result.tag = "Ok" => dfailed = dn)
    /\ (sel.pc # "idle" /\ cancel.kind \in QuietKinds) ~>
            (result.tag = "Ok" /\ result.radio.mode = "Standby" /\ dfailed = dn)

C7_Witness ==
    /\ cancel.kind = "held" /\ result.tag = "Ok"
    /\ n0 = 2 /\ dn = 2 /\ dfailed = 2

\* C8: the returned driver gave Ok with a Standby device exactly when the
\* retry loop completed, and Err exactly when the cancellation operand
\* completed, the error being that operand's output and not the not-ready
\* message of an internal attempt.
C8_TwoOutcomes ==
    sel.pc = "returned" =>
        /\ result.tag \in {"Ok", "Err"}
        /\ (result.tag = "Ok") <=> (loop.pc = "done")
        /\ (result.tag = "Err") <=> (cancel.pc = "done")
        /\ result.tag = "Ok" => result.radio.mode = "Standby"
        /\ result.tag = "Err" =>
               /\ result.error = cancel_output(cancel.kind)
               /\ result.error # NotReadyMsg

C8_Witness == sel.pc = "returned" /\ result.tag = "Err" /\ dfailed = 2

Immediate(f) == ~f.never /\ f.delay = 0

\* C9: an operand ready at its first poll raced against one that is never
\* ready gives the ready operand's output, First(out) when it is the first
\* argument and Second(out) when it is the second, at the first poll of the
\* race.
C9_ImmediateWins ==
    /\ (Immediate(fut1) /\ fut2.never) =>
           /\ sel.pc \in {"poll1", "resolved"}
           /\ sel.pc = "resolved" => sel.out = First(fut1.out)
    /\ (Immediate(fut2) /\ fut1.never) =>
           /\ sel.pc \in {"poll1", "poll2", "resolved"}
           /\ sel.pc = "resolved" => sel.out = Second(fut2.out)

C9_Witness ==
    /\ Immediate(fut2) /\ fut1.never
    /\ sel.pc = "resolved" /\ sel.out = Second("b")

\* C10: after Standby -> Configured -> Operate -> Standby the device is in
\* Standby with the data it had when it entered Configured, and it carries
\* that data all along the trip.
C10_RoundTrip ==
    /\ trip = "complete" => Mode = "Standby"
    /\ trip # "none" => Data = snap

C10_Witness == trip = "complete" /\ sent >= 1 /\ n0 >= 1

\* A step that is a call of enter_standby (the only steps that end a trip).
EnterStandbyStep == trip' # trip /\ trip' \in {"none", "complete"}

\* C11: enter_standby can be called on every device in Configured or in
\* Operate, and every call of it returns a device (no Result to unwrap) that
\* is in Standby and carries the data of the consumed device.
C11_EnterStandbyAlwaysSucceeds ==
    /\ [](radio.mode \in {"Configured", "Operate"} =>
            ENABLED (EnterStandbyConfigured \/ EnterStandbyOperate))
    /\ [][EnterStandbyStep =>
            /\ radio.mode \in {"Configured", "Operate"}
            /\ ret' = NoRet
            /\ radio'.mode = "Standby"
            /\ radio'.data = radio.data]_vars

C11_Witness ==
    /\ {<<"Configured", "Standby">>, <<"Operate", "Standby">>} \subseteq edges
    /\ radio.mode = "Standby"

\* C12: a send_data call happens only on a device in Operate held by the
\* caller and leaves it where it was, in Operate, with the same data; after
\* it enter_standby can be called, and so can send_data (up to MaxSends
\* calls are followed).
C12_SendDataChangesNothing ==
    /\ [][sent' # sent =>
            /\ radio.mode = "Operate"
            /\ radio' = radio
            /\ ret' = ret
            /\ sent' = sent + 1]_vars
    /\ [](radio.mode = "Operate" =>
            /\ ENABLED EnterStandbyOperate
            /\ sent < MaxSends => ENABLED SendData)
    /\ [](sent > 0 /\ Mode = "Operate" => Data = snap)

C12_Witness == sent >= 2 /\ radio.mode = "Operate"

\* Calls enough to use up the retries of d and then walk the whole lifecycle.
Fuel(d) == d.data.init_count + 3

\* C13: whoever holds a device can call a transition on it (a returned value
\* can always be bound), so no mode is terminal; and from every device in
\* Uninitialized, Configured or Operate a finite sequence of transition
\* calls leads to Standby.
C13_NoTerminalMode ==
    /\ radio # NoRadio =>
           ENABLED (Standby \/ Configure \/ Operate
                    \/ EnterStandbyConfigured \/ EnterStandbyOperate)
    /\ ret # NoRet => ENABLED (TakeOk \/ Recover)
    /\ radio.mode \in {"Uninitialized", "Configured", "Operate"} =>
           CanReach(radio, "Standby", Fuel(radio))

C13_Witness ==
    radio.mode = "Uninitialized" /\ failed >= 1 /\ radio.data.init_count >= 1

\* C14 as stated: from a device in Standby each of Uninitialized, Configured
\* and Operate can be reached by transition calls.
C14_Original ==
    radio.mode = "Standby" =>
        \A m \in {"Uninitialized", "Configured", "Operate"} :
            CanReach(radio, m, Fuel(radio))

\* C14 amended: from a device in Standby, Configured and Operate can be
\* reached by transition calls and Uninitialized cannot; no step of any run
\* brings a device into Uninitialized.
C14_StandbyReaches ==
    /\ [](radio.mode = "Standby" =>
            /\ CanReach(radio, "Configured", Fuel(radio))
            /\ CanReach(radio, "Operate", Fuel(radio))
            /\ ~CanReach(radio, "Uninitialized", Fuel(radio)))
    /\ [][Mode' = "Uninitialized" => Mode = "Uninitialized"]_vars

C14_Witness == radio.mode = "Standby" /\ edges = {<<"Uninitialized", "Standby">>}

\* A radio.rs device from Radio::new_init(n) (Radio::new is n = 0).
InitRadio ==
    /\ pradio \in {radio_new_init(n) : n \in 0..MaxInit}
    /\ passed = NoConfig
    /\ pcalls = NoCalls
    /\ radio = NoRadio
    /\ n0 = 0
    /\ ret = NoRet
    /\ failed = 0
    /\ sent = 0
    /\ pre = NoRadio
    /\ edges = {}
    /\ trip = "none"
    /\ snap = NoData
    /\ loop = [pc |-> "unborn", radio |-> NoRadio, e |-> NoErr]
    /\ cancel = [kind |-> "held", fired |-> FALSE, pc |-> "waiting"]
    /\ sel = [pc |-> "idle", out |-> NoOut]
    /\ result = NoResult
    /\ dn = 0
    /\ dfailed = 0
    /\ firedAtStart = FALSE
    /\ fut1 = NoFuture
    /\ fut2 = NoFuture
    /\ IdleLoop
    /\ IdleResponse
    /\ IdleTwo

NextRadio ==
    \/ PStandby
    \/ PConfigure
    \/ POperate
    \/ PEnterStandbyConfigured
    \/ PEnterStandbyOperate
    \/ PSendData

SpecRadio == InitRadio /\ [][NextRadio]_vars

\* C15: configure can be called on every radio.rs device in Standby and
\* succeeds; the Configured device it gives carries the configuration passed
\* and the data of the consumed device; a device carries a configuration
\* exactly while it is in Configured.
C15_ConfiguredCarriesConfig ==
    /\ [](pradio # NoPRadio)
    /\ []((pradio.state.tag = "Standby" /\ pcalls.configure < MaxConfigs) =>
            ENABLED PConfigure)
    /\ []((pradio.state.tag = "Configured") <=> ("config" \in DOMAIN pradio.state))
    /\ [](pradio.state.tag = "Configured" => pradio.state.config = passed)
    /\ [][pcalls'.configure # pcalls.configure =>
            /\ pradio.state.tag = "Standby"
            /\ pradio'.state = [tag |-> "Configured", config |-> passed']
            /\ pradio'.data = pradio.data]_vars

C15_Witness ==
    /\ pradio.state.tag = "Standby"
    /\ pcalls.configure >= 2
    /\ pcalls.send_data >= 1

\* C16: a poll of the retry loop makes one standby attempt; an attempt is
\* made only when every earlier attempt has failed and been followed by a
\* yield_now suspension, and, inside the race, by a poll of the cancellation
\* operand.
C16_AttemptsAreSequential ==
    [][dattempts' # dattempts =>
          /\ dattempts' = dattempts + 1
          /\ dfailed = dattempts
          /\ dyields = dattempts
          /\ loop.pc = (IF dattempts = 0 THEN "start" ELSE "yield")
          /\ sel.pc # "idle" => cpolls = dattempts]_vars

C16_Witness == sel.pc = "resolved" /\ loop.pc = "done" /\ dattempts = 3 /\ cpolls = 2

\* C17: once the race is resolved neither operand is polled again; when the
\* driver has returned the cancellation's value the retry loop is dropped
\* with its device, no binding owns a device, and from then on the result
\* stays and no device appears; when it has returned the device, the
\* cancellation operand is dropped.
C17_LoserIsDropped ==
    /\ [][(sel.pc \in {"resolved", "returned"}) =>
            /\ dattempts' = dattempts
            /\ dyields' = dyields
            /\ cpolls' = cpolls]_vars
    /\ []((sel.pc = "returned" /\ result.tag = "Err") =>
            /\ loop.pc = "dropped"
            /\ cancel.pc = "done"
            /\ Holders = {})
    /\ []((sel.pc = "returned" /\ result.tag = "Ok") => cancel.pc = "dropped")
    /\ [][result.tag = "Err" => (result' = result /\ Holders' = {})]_vars

C17_Witness ==
    /\ sel.pc = "returned" /\ result.tag = "Err"
    /\ dattempts = 2 /\ Holders = {}

\* C18: try_enter_standby_forever awaited on its own ends only by returning,
\* and what it returns is a device in Standby, after as many failed attempts
\* and as many yields as the init_count of the device it was given; under a
\* fair scheduler it does return.
C18_ForeverEndsInStandby ==
    /\ [][(fpc \in {"poll", "pending"}) =>
            (fpc' \in {"poll", "pending", "returned"})]_vars
    /\ [][(fpc # "returned" /\ fpc' = "returned") =>
            /\ radio'.mode = "Standby"
            /\ ret' = NoRet
            /\ dfailed' = dn
            /\ dyields' = dn
            /\ dattempts' = dn + 1]_vars
    /\ (fpc = "poll") ~> (fpc = "returned")

C18_Witness ==
    /\ fpc = "returned" /\ radio.mode = "Standby"
    /\ n0 = 2 /\ dn = 2 /\ dfailed = 2 /\ dyields = 2

\* The output the operands determine: the operand that is ready at the
\* earlier poll, fut1 when both are ready at the same poll.
Expected ==
    IF fut1.never THEN Second(fut2.out)
    ELSE IF fut2.never THEN First(fut1.out)
    ELSE IF fut1.delay <= fut2.delay THEN First(fut1.out)
    ELSE Second(fut2.out)

\* C19: the output of the race is determined by its operands and the poll
\* order, and when both operands become ready at the same poll it is
\* First with the first operand's output.
C19_FirstWinsTies ==
    sel.pc = "resolved" =>
        /\ sel.out = Expected
        /\ (~fut1.never /\ ~fut2.never /\ fut1.delay = fut2.delay) =>
               sel.out = First(fut1.out)

C19_Witness ==
    /\ sel.pc = "resolved"
    /\ ~fut1.never /\ ~fut2.never
    /\ fut1.delay = 1 /\ fut2.delay = 1
    /\ sel.out = First(fut1.out) /\ fut1.out # fut2.out

\* C20: a driver called after the signal has fired on a device with
\* init_count 0 never polls the cancellation operand and returns Ok with a
\* Standby device.
C20_NoRetriesBeatsCancel ==
    (firedAtStart /\ dn = 0) =>
        /\ cpolls = 0
        /\ cancel.pc # "done"
        /\ sel.pc \in {"poll1", "resolved", "returned"}
        /\ sel.pc = "returned" =>
               /\ result.tag = "Ok"
               /\ result.radio.mode = "Standby"
               /\ dfailed = 0

C20_Witness ==
    /\ firedAtStart /\ dn = 0 /\ n0 = 0
    /\ sel.pc = "returned" /\ result.tag = "Ok"

---------------------------------------------------------------------------
(* radio2.rs on its own: tests::test_operate and every other order of calls *)

InitRadio2 ==
    /\ radio2 = radio2_default
    /\ ret2 = NoRet
    /\ calls2 = NoCalls2
    /\ radio = NoRadio
    /\ n0 = 0
    /\ ret = NoRet
    /\ failed = 0
    /\ sent = 0
    /\ pre = NoRadio
    /\ edges = {}
    /\ trip = "none"
    /\ snap = NoData
    /\ loop = [pc |-> "unborn", radio |-> NoRadio, e |-> NoErr]
    /\ cancel = [kind |-> "held", fired |-> FALSE, pc |-> "waiting"]
    /\ sel = [pc |-> "idle", out |-> NoOut]
    /\ result = NoResult
    /\ dn = 0
    /\ dfailed = 0
    /\ firedAtStart = FALSE
    /\ fut1 = NoFuture
    /\ fut2 = NoFuture
    /\ IdlePayload
    /\ IdleLoop
    /\ IdleResponse

NextRadio2 ==
    \/ TwoConfigure
    \/ TwoOperate
    \/ TwoStandbyConfigured
    \/ TwoStandbyOperate
    \/ TwoGetData

SpecRadio2 == InitRadio2 /\ [][NextRadio2]_vars

\* The positions of the race at which it has not resolved.
RaceOpen == {"idle", "poll1", "poll2", "pending"}

\* C21: once the cancellation signal has fired, the race makes at most one
\* more standby attempt; after that attempt has failed the race only polls
\* the (ready) cancellation operand, resolves to its output and the driver
\* returns that output as the error; when the signal fired before the race
\* resolved, the driver returns a device only if exactly one attempt followed
\* the signal and it succeeded, and the device is in Standby.
C21_BoundedResponse ==
    /\ dafter.attempts <= 1
    /\ dafter.failed = 1 =>
          \/ sel.pc = "poll2" /\ cancel.fired /\ cancel.pc = "waiting"
          \/ /\ sel.pc = "resolved"
             /\ sel.out.tag = "Second"
             /\ sel.out.val = cancel_output(cancel.kind)
          \/ /\ sel.pc = "returned"
             /\ result.tag = "Err"
             /\ result.error = cancel_output(cancel.kind)
    /\ (result.tag = "Ok" /\ firedAt \in RaceOpen) =>
          /\ dafter = [attempts |-> 1, failed |-> 0]
          /\ result.radio.mode = "Standby"

C21_Witness ==
    /\ result.tag = "Err"
    /\ firedAt = "pending"
    /\ dafter = [attempts |-> 1, failed |-> 1]
    /\ dfailed >= 2

Edges2 ==
    {<<"Uninitialized", "Configured">>, <<"Configured", "Operate">>,
     <<"Configured", "Uninitialized">>, <<"Operate", "Uninitialized">>}

\* C22: on a radio2.rs device every step that changes the mode follows
\* Uninitialized->Configured, Configured->Operate, Configured->Uninitialized
\* or Operate->Uninitialized; every transition returns Ok, so the device is
\* never lost; a standby call leaves a device in Uninitialized on which
\* configure succeeds and gives a Configured device; and the data of the
\* device is at every moment the value it was built with.
C22_SecondVariantCycles ==
    /\ [](radio2 # NoRadio2 /\ radio2.data = Data_default)
    /\ [](ret2.tag \in {"None", "Ok"})
    /\ []((radio2.mode = "Uninitialized" /\ calls2.configure < MaxCycles) =>
            ENABLED TwoConfigure)
    /\ [][(radio2'.mode # radio2.mode) =>
            <<radio2.mode, radio2'.mode>> \in Edges2]_vars
    /\ [][(calls2'.standby_configured # calls2.standby_configured
           \/ calls2'.standby_operate # calls2.standby_operate) =>
            /\ radio2'.mode = "Uninitialized"
            /\ radio2_configure(radio2').tag = "Ok"
            /\ radio2_configure(radio2').radio.mode = "Configured"
            /\ radio2_configure(radio2').radio.data = radio2.data]_vars

C22_Witness ==
    /\ radio2.mode = "Configured"
    /\ calls2.standby_configured >= 1
    /\ calls2.standby_operate >= 1

\* C23: init_count never leaves 0..n, n the count the constructor was given;
\* a step changes it only from a value above zero, to one less, on an
\* Uninitialized device; and once an Uninitialized device has init_count zero
\* its standby call succeeds, and no step records a failed attempt or changes
\* the count again.
C23_InitCountNeverUnderflows ==
    /\ [](\A h \in Holders : h[2].data.init_count \in 0..n0)
    /\ [](\A h \in Holders :
            (h[2].mode = "Uninitialized" /\ h[2].data.init_count = 0) =>
                /\ standby(h[2]).tag = "Ok"
                /\ standby(h[2]).radio.data.init_count = 0)
    /\ [][(InitCount' # InitCount /\ Device' # NoRadio) =>
            /\ Mode = "Uninitialized"
            /\ InitCount > 0
            /\ InitCount' = InitCount - 1]_vars
    /\ [][(InitCount = 0 /\ Device # NoRadio /\ Device' # NoRadio) =>
            /\ InitCount' = 0
            /\ failed' = failed
            /\ dfailed' = dfailed]_vars

C23_Witness ==
    /\ ret.tag = "Ok"
    /\ ret.radio.mode = "Standby"
    /\ n0 = MaxInit
    /\ failed = n0
    /\ pre.data.init_count = 0

=============================================================================
